---- MODULE Spec2Model ----
(***************************************************************************)
(* A model of src/app.py: the Streamlit script that turns an uploaded      *)
(* video or audio file into a transcript and an analysis.                  *)
(*                                                                         *)
(* Streamlit executes the script top to bottom on every interaction: the   *)
(* module-level statements (lines 17-26) and then main() (lines 83-138).   *)
(* One script execution performs at most one run of process_file.          *)
(*                                                                         *)
(* Text (file names, prompts, transcripts) is a sequence of one-character  *)
(* strings.  A Python value that may be None is a sequence of length 0     *)
(* (None) or 1 (the value).                                                *)
(***************************************************************************)
EXTENDS Naturals, Sequences, FiniteSets

\* ------------------------------------------------------------------ bounds
\* longest prompt template, transcript and model response
MaxLen == 2
\* number of script executions of the process
MaxScriptRuns == 3

\* ------------------------------------------------------------------- text
Alphabet == {"a", "\n"}

Strings == UNION {[1..n -> Alphabet] : n \in 0..MaxLen}

None == <<>>
Some(v) == <<v>>

\* Python truth value of an optional string: None and "" are false
Truthy(v) == v # None /\ v[1] # <<>>

\* uploaded_file.name for the uploads tried
Names ==
  { <<"a", ".", "m", "p", "4">>,
    <<"A", ".", "M", "P", "4">>,
    <<"a", ".", "m", "o", "v">>,
    <<"a", ".", "a", "v", "i">>,
    <<"a", ".", "m", "4", "a">>,
    <<"a", ".", "W", "a", "v">>,
    <<"a", ".", "m", "p", "3">>,
    <<"a", ".", "t", "x", "t">>,
    <<"m", "p", "4">>,
    <<".", "m", "p", "4">>,
    <<"a", ".", "m", "p", "4", ".">> }

UpperCase == <<"A", "M", "P", "W">>
LowerCase == <<"a", "m", "p", "w">>

\* str.lower() on one character
LowerChar(c) ==
  IF \E i \in 1..Len(UpperCase) : UpperCase[i] = c
  THEN LowerCase[CHOOSE i \in 1..Len(UpperCase) : UpperCase[i] = c]
  ELSE c

\* str.lower()
Lower(s) == [i \in 1..Len(s) |-> LowerChar(s[i])]

\* str.rfind(c), 1-based, 0 when c does not occur
RFind(s, c) ==
  LET I == {i \in 1..Len(s) : s[i] = c}
  IN IF I = {} THEN 0 ELSE CHOOSE i \in I : \A j \in I : j <= i

\* os.path.splitext(p)[1]: from the last dot of the last path component,
\* unless that component has only dots before it
SplitExt(p) ==
  LET sepIndex == RFind(p, "/")
      dotIndex == RFind(p, ".")
  IN IF dotIndex > sepIndex
        /\ \E i \in (sepIndex + 1)..(dotIndex - 1) : p[i] # "."
     THEN SubSeq(p, dotIndex, Len(p))
     ELSE <<>>

\* line 43
FileExtension(name) == Lower(SplitExt(name))

\* line 53
VideoExtensions ==
  { <<".", "m", "p", "4">>, <<".", "m", "o", "v">>, <<".", "a", "v", "i">> }

\* line 56
AudioExtensions ==
  { <<".", "m", "4", "a">>, <<".", "w", "a", "v">>, <<".", "m", "p", "3">> }

TranscriptionLabel ==
  <<"T", "r", "a", "n", "s", "c", "r", "i", "p", "t", "i", "o", "n", ":">>

\* line 38, with the order of the two parts exchanged
FullPrompt_Swapped(text, template) ==
  text \o <<"\n", "\n">> \o TranscriptionLabel \o <<"\n">> \o template

\* line 38: f"{prompt_template}\n\nTranscription:\n{text}"
FullPrompt(text, template) ==
  template \o <<"\n", "\n">> \o TranscriptionLabel \o <<"\n">> \o text

\* errors generate_content raises
AnalysisErrors == {"auth", "quota", "network"}

\* ------------------------------------------------------------------ state
VARIABLES
  pc,              \* where the script is
  scriptRuns,      \* script executions started so far
  cache,           \* st.cache_resource entry of load_whisper_model: 0 = none
  loadCount,       \* calls of whisper.load_model so far
  whisper_model,   \* the module global of the current script execution
  leaked,          \* temp files left on disk by earlier script executions
  uploaded_name,   \* uploaded_file.name (None: no run)
  file_extension,
  prompt_template,
  tmp_input,       \* the input temp file: "none", "empty", "partial", "bytes"
  tmp_audio,       \* the .wav temp file: "none", "empty", "wav"
  created,         \* temp files this run has created
  transcription,   \* local of process_file
  analysis,        \* local of process_file
  retval,          \* what process_file returned: <<>> or <<t, a>>
  exc,             \* the exception in flight or propagated: "none" or its kind
  outcome,         \* how the run left the pipeline
  log,             \* the calls of this run and how each ended, in order
  messages,        \* messages shown to the user by this script execution
  submitted,       \* the prompts passed to model.generate_content
  generated,       \* response.text of the generative model (None: no response)
  usedHandle,      \* the model handle transcribe_audio used (0: none)
  spinner,         \* the st.spinner shown right now
  rendered         \* the Analysis and Transcription tabs are shown

procVars == <<scriptRuns, cache, loadCount, whisper_model, leaked>>

runVars ==
  <<uploaded_name, file_extension, prompt_template, tmp_input, tmp_audio,
    created, transcription, analysis, retval, exc, outcome, log, messages,
    submitted, generated, usedHandle, spinner, rendered>>

vars == <<pc, procVars, runVars>>

Exists(f) == f # "none"

FilesOnDisk == (IF Exists(tmp_input) THEN 1 ELSE 0)
               + (IF Exists(tmp_audio) THEN 1 ELSE 0)

Init ==
  /\ pc = "idle"
  /\ scriptRuns = 0
  /\ cache = 0
  /\ loadCount = 0
  /\ whisper_model = 0
  /\ leaked = 0
  /\ uploaded_name = None
  /\ file_extension = <<>>
  /\ prompt_template = <<>>
  /\ tmp_input = "none"
  /\ tmp_audio = "none"
  /\ created = 0
  /\ transcription = None
  /\ analysis = None
  /\ retval = <<>>
  /\ exc = "none"
  /\ outcome = "none"
  /\ log = <<>>
  /\ messages = {}
  /\ submitted = <<>>
  /\ generated = None
  /\ usedHandle = 0
  /\ spinner = "none"
  /\ rendered = FALSE

\* the state of the run, in the words of the pipeline's state machine
RunState ==
  CASE pc \in {"tmp_file", "tmp_audio", "dispatch"} -> "Idle"
    [] pc = "extract" -> "Extracting"
    [] pc = "transcribe" -> "Transcribing"
    [] pc = "analyze" -> "Analyzing"
    [] OTHER -> IF outcome = "none" THEN "Idle" ELSE outcome

\* process_file has been left, by return or by exception
RunEnded == pc \in {"returned", "idle"} /\ outcome # "none"

\* ---------------------------------------------------------------- actions
\* lines 22-26 without the cache: every script execution loads a model
LoadWhisperModel_Uncached ==
  /\ loadCount' = loadCount + 1
  /\ whisper_model' = loadCount + 1
  /\ cache' = cache

\* lines 22-26: load_whisper_model() under st.cache_resource; the first call
\* runs whisper.load_model and stores the handle, later calls return it
LoadWhisperModel ==
  IF cache = 0
  THEN /\ loadCount' = loadCount + 1
       /\ cache' = loadCount + 1
       /\ whisper_model' = loadCount + 1
  ELSE /\ whisper_model' = cache
       /\ UNCHANGED <<loadCount, cache>>

\* a script execution starts: the module-level statements, lines 1-26.
\* Nothing of the previous execution survives but the resource cache and
\* what it left on disk.
ScriptStart ==
  /\ pc = "idle"
  /\ scriptRuns < MaxScriptRuns
  /\ scriptRuns' = scriptRuns + 1
  /\ LoadWhisperModel
  /\ leaked' = leaked + FilesOnDisk
  /\ uploaded_name' = None
  /\ file_extension' = <<>>
  /\ prompt_template' = <<>>
  /\ tmp_input' = "none"
  /\ tmp_audio' = "none"
  /\ created' = 0
  /\ transcription' = None
  /\ analysis' = None
  /\ retval' = <<>>
  /\ exc' = "none"
  /\ outcome' = "none"
  /\ log' = <<>>
  /\ messages' = {}
  /\ submitted' = <<>>
  /\ generated' = None
  /\ usedHandle' = 0
  /\ spinner' = "none"
  /\ rendered' = FALSE
  /\ pc' = "main"

\* main, lines 83-124, up to the call of process_file and line 43 of it.
\* The type list of line 96 is a hint to the upload widget, which is not
\* part of this program: the name that arrives is not taken to be filtered,
\* and process_file tests the extension itself (lines 53-61).
Main ==
  /\ pc = "main"
  /\ \E uploaded_file \in {None} \cup {Some(n) : n \in Names},
        text \in Strings, clicked \in BOOLEAN :
       IF uploaded_file # None /\ clicked
       THEN /\ uploaded_name' = uploaded_file
            /\ prompt_template' = text
            /\ file_extension' = FileExtension(uploaded_file[1])
            /\ pc' = "tmp_file"
       ELSE /\ pc' = "idle"
            /\ UNCHANGED <<uploaded_name, prompt_template, file_extension>>
  /\ UNCHANGED <<procVars, tmp_input, tmp_audio, created, transcription,
                 analysis, retval, exc, outcome, log, messages, submitted,
                 generated,
                 usedHandle, spinner, rendered>>

\* an exception leaves process_file before the try statement is entered:
\* it passes through main and ends the script execution
RaiseOutsideTry(kind) ==
  /\ exc' = kind
  /\ outcome' = "Failed"
  /\ pc' = "idle"

\* lines 45-47: create the input temp file (delete=False) and copy the
\* upload into it
CreateInputTemp ==
  /\ pc = "tmp_file"
  /\ \/ /\ RaiseOutsideTry("OSError")          \* NamedTemporaryFile raises
        /\ UNCHANGED <<tmp_input, created>>
     \/ /\ RaiseOutsideTry("OSError")          \* read() or write() raises
        /\ tmp_input' \in {"empty", "partial"}
        /\ created' = created + 1
     \/ /\ tmp_input' = "bytes"
        /\ created' = created + 1
        /\ pc' = "tmp_audio"
        /\ UNCHANGED <<exc, outcome>>
  /\ UNCHANGED <<procVars, uploaded_name, file_extension, prompt_template,
                 tmp_audio, transcription, analysis, retval, log, messages,
                 submitted, generated, usedHandle, spinner, rendered>>

\* lines 49-50: create the .wav temp file (delete=False)
CreateAudioTemp ==
  /\ pc = "tmp_audio"
  /\ \/ /\ RaiseOutsideTry("OSError")          \* NamedTemporaryFile raises
        /\ UNCHANGED <<tmp_audio, created>>
     \/ /\ tmp_audio' = "empty"
        /\ created' = created + 1
        /\ pc' = "dispatch"
        /\ UNCHANGED <<exc, outcome>>
  /\ UNCHANGED <<procVars, uploaded_name, file_extension, prompt_template,
                 tmp_input, transcription, analysis, retval, log, messages,
                 submitted, generated, usedHandle, spinner, rendered>>

\* lines 52-61: the branch on the extension
Dispatch ==
  /\ pc = "dispatch"
  /\ IF file_extension \in VideoExtensions
     THEN /\ spinner' = "Extracting audio from video..."
          /\ pc' = "extract"
          /\ UNCHANGED <<messages, retval, outcome>>
     ELSE IF file_extension \in AudioExtensions
     THEN /\ spinner' = "Converting audio to WAV format..."
          /\ pc' = "extract"
          /\ UNCHANGED <<messages, retval, outcome>>
     ELSE /\ messages' = messages \cup {"Unsupported file format"}
          /\ retval' = <<None, None>>
          /\ outcome' = "Rejected"
          /\ pc' = "finally"
          /\ UNCHANGED spinner
  /\ UNCHANGED <<procVars, uploaded_name, file_extension, prompt_template,
                 tmp_input, tmp_audio, created, transcription, analysis, exc,
                 log, submitted, generated, usedHandle, rendered>>

\* a step raises inside the try statement: control goes to the finally clause
RaiseInTry(kind) ==
  /\ exc' = kind
  /\ outcome' = "Failed"
  /\ spinner' = "none"
  /\ pc' = "finally"

\* extract_audio, tried a second time when its first call raises
ExtractAudio_RetryOnce ==
  /\ pc = "extract"
  /\ \/ /\ tmp_audio' = "wav"
        /\ log' = log \o <<"extract_audio", "returned">>
        /\ spinner' = "Transcribing audio..."
        /\ pc' = "transcribe"
        /\ UNCHANGED <<exc, outcome>>
     \/ /\ log = <<>>
        /\ log' = log \o <<"extract_audio", "raised">>
        /\ UNCHANGED <<tmp_audio, exc, outcome, spinner, pc>>
     \/ /\ log # <<>>
        /\ RaiseInTry("decode")
        /\ log' = log \o <<"extract_audio", "raised">>
        /\ UNCHANGED tmp_audio
  /\ UNCHANGED <<procVars, uploaded_name, file_extension, prompt_template,
                 tmp_input, created, transcription, analysis, retval,
                 messages, submitted, generated, usedHandle, rendered>>

\* extract_audio, removing its input once the .wav file is written
ExtractAudio_DeletesInput ==
  /\ pc = "extract"
  /\ \/ /\ tmp_audio' = "wav"
        /\ tmp_input' = "none"
        /\ log' = log \o <<"extract_audio", "returned">>
        /\ spinner' = "Transcribing audio..."
        /\ pc' = "transcribe"
        /\ UNCHANGED <<exc, outcome>>
     \/ /\ RaiseInTry("decode")
        /\ log' = log \o <<"extract_audio", "raised">>
        /\ UNCHANGED <<tmp_audio, tmp_input>>
  /\ UNCHANGED <<procVars, uploaded_name, file_extension, prompt_template,
                 created, transcription, analysis, retval, messages,
                 submitted, generated, usedHandle, rendered>>

\* lines 28-30 and 54-58: extract_audio(file_path, audio_path)
ExtractAudio ==
  /\ pc = "extract"
  /\ \/ /\ tmp_audio' = "wav"
        /\ log' = log \o <<"extract_audio", "returned">>
        /\ spinner' = "Transcribing audio..."
        /\ pc' = "transcribe"
        /\ UNCHANGED <<exc, outcome>>
     \/ /\ RaiseInTry("decode")                \* from_file raises, line 29
        /\ log' = log \o <<"extract_audio", "raised">>
        /\ UNCHANGED tmp_audio
     \/ /\ RaiseInTry("decode")                \* export raises, line 30
        /\ log' = log \o <<"extract_audio", "raised">>
        /\ tmp_audio' = "partial"
  /\ UNCHANGED <<procVars, uploaded_name, file_extension, prompt_template,
                 tmp_input, created, transcription, analysis, retval,
                 messages, submitted, generated, usedHandle, rendered>>

\* transcribe_audio inside a try/except that goes on with an empty transcript
TranscribeAudio_Swallow ==
  /\ pc = "transcribe"
  /\ usedHandle' = whisper_model
  /\ \/ /\ \E text \in Strings : transcription' = Some(text)
        /\ log' = log \o <<"transcribe_audio", "returned">>
     \/ /\ transcription' = Some(<<>>)
        /\ log' = log \o <<"transcribe_audio", "raised">>
  /\ spinner' = "Analyzing content..."
  /\ pc' = "analyze"
  /\ UNCHANGED <<procVars, uploaded_name, file_extension, prompt_template,
                 tmp_input, tmp_audio, created, analysis, retval, messages,
                 submitted, generated, rendered, exc, outcome>>

\* lines 32-34 and 63-64: transcribe_audio(audio_path)
TranscribeAudio ==
  /\ pc = "transcribe"
  /\ usedHandle' = whisper_model
  /\ \/ /\ \E text \in Strings : transcription' = Some(text)
        /\ log' = log \o <<"transcribe_audio", "returned">>
        /\ spinner' = "Analyzing content..."
        /\ pc' = "analyze"
        /\ UNCHANGED <<exc, outcome>>
     \/ /\ RaiseInTry("transcription")
        /\ log' = log \o <<"transcribe_audio", "raised">>
        /\ UNCHANGED transcription
  /\ UNCHANGED <<procVars, uploaded_name, file_extension, prompt_template,
                 tmp_input, tmp_audio, created, analysis, retval, messages,
                 submitted, generated, rendered>>

\* lines 36-40 and 66-69: analyze_text(transcription, prompt_template) and
\* the return statement
AnalyzeText ==
  /\ pc = "analyze"
  /\ submitted' = Append(submitted, FullPrompt(transcription[1], prompt_template))
  /\ \/ /\ \E text \in Strings :
             /\ generated' = Some(text)
             /\ analysis' = Some(text)
             /\ retval' = <<transcription, Some(text)>>
        /\ log' = log \o <<"analyze_text", "returned">>
        /\ outcome' = "Done"
        /\ spinner' = "none"
        /\ pc' = "finally"
        /\ UNCHANGED exc
     \/ /\ \E kind \in AnalysisErrors : RaiseInTry(kind)
        /\ log' = log \o <<"analyze_text", "raised">>
        /\ UNCHANGED <<analysis, retval, generated>>
  /\ UNCHANGED <<procVars, uploaded_name, file_extension, prompt_template,
                 tmp_input, tmp_audio, created, transcription, messages,
                 usedHandle, rendered>>

\* the deletions placed after the pipeline instead of in a finally clause:
\* an exception skips them
Cleanup_SkipOnError ==
  /\ pc = "finally"
  /\ IF exc = "none"
     THEN tmp_input' = "none" /\ tmp_audio' = "none"
     ELSE UNCHANGED <<tmp_input, tmp_audio>>
  /\ pc' = IF exc = "none" THEN "returned" ELSE "idle"
  /\ UNCHANGED <<procVars, uploaded_name, file_extension, prompt_template,
                 created, transcription, analysis, retval, exc, outcome, log,
                 messages, submitted, generated, usedHandle, spinner,
                 rendered>>

\* lines 71-76: the finally clause, then the return or the exception goes on
Cleanup ==
  /\ pc = "finally"
  /\ tmp_input' = "none"
  /\ tmp_audio' = "none"
  /\ pc' = IF exc = "none" THEN "returned" ELSE "idle"
  /\ UNCHANGED <<procVars, uploaded_name, file_extension, prompt_template,
                 created, transcription, analysis, retval, exc, outcome, log,
                 messages, submitted, generated, usedHandle, spinner, rendered>>

\* line 126 as a test against None only
ShowTabs_NotNone(t, a) == t # None /\ a # None

\* line 126: if transcription and analysis
ShowTabs(t, a) == Truthy(t) /\ Truthy(a)

\* lines 124-138: main takes the pair process_file returned
Present ==
  /\ pc = "returned"
  /\ rendered' = ShowTabs(retval[1], retval[2])
  /\ pc' = "idle"
  /\ UNCHANGED <<procVars, uploaded_name, file_extension, prompt_template,
                 tmp_input, tmp_audio, created, transcription, analysis,
                 retval, exc, outcome, log, messages, submitted, generated,
                 usedHandle,
                 spinner>>

Next ==
  \/ ScriptStart
  \/ Main
  \/ CreateInputTemp
  \/ CreateAudioTemp
  \/ Dispatch
  \/ ExtractAudio
  \/ TranscribeAudio
  \/ AnalyzeText
  \/ Cleanup
  \/ Present

Spec == Init /\ [][Next]_vars

\* ----------------------------------------------------------------- claims
Unsupported == "Unsupported file format"

\* the lower-cased extension of the uploaded file's name
UploadedExtension == Lower(SplitExt(uploaded_name[1]))

\* the six extensions the pipeline is run for
SixExtensions ==
  { <<".", "m", "p", "4">>, <<".", "m", "o", "v">>, <<".", "a", "v", "i">>,
    <<".", "m", "4", "a">>, <<".", "w", "a", "v">>, <<".", "m", "p", "3">> }

\* the steps of the pipeline this run has invoked
Invoked == {log[i] : i \in 1..Len(log)} \ {"returned", "raised"}

\* some step of this run raised
StepRaised == \E i \in 1..Len(log) : log[i] = "raised"

\* both temp files were created and written: the try statement was entered
SetupDone == created = 2 /\ pc # "dispatch"

\* C1: after any run of process_file, whichever way it exits (return,
\* rejection, or an error raised anywhere, the creation and writing of the
\* temp files included), neither temp file of the run is left on disk.
C1_NoTempFileLeft ==
  RunEnded => tmp_input = "none" /\ tmp_audio = "none"

\* C2: a run that rejects an unsupported extension has created no temp file
\* and written no uploaded byte to disk at any point.
C2_RejectedBeforeAnyWrite ==
  outcome = "Rejected" => created = 0

\* C3: process_file takes the pipeline path exactly when the lower-cased
\* extension is one of the six; for every other extension it shows the
\* unsupported-format message, returns (None, None) and invokes no step.
C3_PipelineIffSupported ==
  RunEnded =>
    /\ Invoked # {} => UploadedExtension \in SixExtensions
    /\ UploadedExtension \in SixExtensions =>
         /\ Unsupported \notin messages
         /\ retval # <<None, None>>
    /\ UploadedExtension \notin SixExtensions =>
         /\ Unsupported \in messages
         /\ retval = <<None, None>>
         /\ Invoked = {}

\* C3, what the code does: once both temp files are created and written,
\* the steps are invoked exactly when the lower-cased extension is one of the
\* six, and every other extension gets the message, (None, None) and no
\* step; when creating or writing a temp file raises, no step is invoked, no
\* message is shown and nothing is returned, whatever the extension.
C3_DispatchOnExtension ==
  /\ Invoked # {} => UploadedExtension \in SixExtensions /\ SetupDone
  /\ Unsupported \in messages =>
       UploadedExtension \notin SixExtensions /\ SetupDone
  /\ RunEnded /\ SetupDone =>
       IF UploadedExtension \in SixExtensions
       THEN /\ "extract_audio" \in Invoked
            /\ Unsupported \notin messages
            /\ outcome # "Rejected"
       ELSE /\ messages = {Unsupported}
            /\ retval = <<None, None>>
            /\ outcome = "Rejected"
            /\ Invoked = {}
  /\ RunEnded /\ ~SetupDone =>
       /\ Invoked = {}
       /\ messages = {}
       /\ retval = <<>>
       /\ exc = "OSError"

\* C3, the dispatch at work: an upper-case supported name has run the
\* pipeline to its end
C3_Witness_UpperCaseRuns ==
  /\ pc = "idle"
  /\ uploaded_name = Some(<<"A", ".", "M", "P", "4">>)
  /\ outcome = "Done"
  /\ Invoked = {"extract_audio", "transcribe_audio", "analyze_text"}

\* C4: when one of the three steps raises, the run ends in Failed: no later
\* step is invoked, the error is neither caught nor retried, process_file
\* returns nothing, and main does not present the tabs.
C4_StepErrorAborts ==
  StepRaised =>
    /\ log[Len(log)] = "raised"
    /\ Cardinality({i \in 1..Len(log) : log[i] = "raised"}) = 1
    /\ outcome = "Failed"
    /\ exc # "none"
    /\ retval = <<>>
    /\ pc \in {"finally", "idle"}
    /\ ~rendered

\* C4 witness: transcribe_audio raised and the script execution is over
C4_Witness_TranscribeRaised ==
  /\ pc = "idle"
  /\ log = <<"extract_audio", "returned", "transcribe_audio", "raised">>

\* the run C5 is about: an .mp4 upload, extraction and transcription
\* returned, generate_content raised an authentication error, run over
AuthFailedRun ==
  /\ pc = "idle"
  /\ uploaded_name # None
  /\ UploadedExtension = <<".", "m", "p", "4">>
  /\ log = <<"extract_audio", "returned", "transcribe_audio", "returned",
             "analyze_text", "raised">>
  /\ exc = "auth"

\* C5 as claimed: in that run the Transcript is non-empty, the Analysis is
\* absent, the run is Failed and no temp file remains.
C5_Original ==
  AuthFailedRun =>
    /\ Truthy(transcription)
    /\ analysis = None
    /\ outcome = "Failed"
    /\ FilesOnDisk = 0

\* C5 as amended: in that run the Transcript is the text transcribe_audio
\* returned (the one the prompt was built from), empty or not, and it is
\* not returned to the caller; the Analysis is absent, the run is Failed and
\* no temp file remains.
C5_AuthFailure ==
  AuthFailedRun =>
    /\ transcription # None
    /\ Len(submitted) = 1
    /\ SubSeq(submitted[1],
              Len(submitted[1]) - Len(transcription[1]) + 1,
              Len(submitted[1])) = transcription[1]
    /\ retval = <<>>
    /\ analysis = None
    /\ generated = None
    /\ outcome = "Failed"
    /\ FilesOnDisk = 0
    /\ ~rendered

\* C5 witness: such a run with a non-empty transcript
C5_Witness_AuthFailed ==
  AuthFailedRun /\ Truthy(transcription)

\* C6: the text analyze_text submits is the prompt template, two newlines,
\* "Transcription:", one newline and the transcript, nothing else; it is
\* submitted in one call and the generated text is returned unchanged.
C6_PromptComposition ==
  /\ Len(submitted) <= 1
  /\ "analyze_text" \in Invoked <=> Len(submitted) = 1
  /\ Len(submitted) = 1 =>
       LET s == submitted[1]
           n == Len(prompt_template)
           m == Len(transcription[1])
       IN /\ Len(s) = n + 17 + m
          /\ \A i \in 1..n : s[i] = prompt_template[i]
          /\ s[n + 1] = "\n"
          /\ s[n + 2] = "\n"
          /\ SubSeq(s, n + 3, n + 16) =
               <<"T", "r", "a", "n", "s", "c", "r", "i", "p", "t", "i", "o",
                 "n", ":">>
          /\ s[n + 17] = "\n"
          /\ \A i \in 1..m : s[n + 17 + i] = transcription[1][i]
  /\ generated # None => analysis = generated /\ retval[2] = generated
  /\ analysis # None => generated # None

\* C6 witness: a template ending in a newline and a transcript starting with
\* one have been submitted and the answer returned
C6_Witness_Submitted ==
  /\ pc = "idle"
  /\ prompt_template = <<"a", "\n">>
  /\ transcription = Some(<<"\n", "a">>)
  /\ Len(submitted) = 1
  /\ retval = <<transcription, Some(<<"a">>)>>

\* the transitions of the pipeline's state machine
SpecTransitions ==
  { <<"Idle", "Extracting">>, <<"Extracting", "Transcribing">>,
    <<"Transcribing", "Analyzing">>, <<"Analyzing", "Done">>,
    <<"Idle", "Rejected">>, <<"Extracting", "Failed">>,
    <<"Transcribing", "Failed">>, <<"Analyzing", "Failed">> }

\* the steps are invoked in order, each at most once, each after the one
\* before it has returned
LinearLogs ==
  { <<>>,
    <<"extract_audio", "returned">>,
    <<"extract_audio", "raised">>,
    <<"extract_audio", "returned", "transcribe_audio", "returned">>,
    <<"extract_audio", "returned", "transcribe_audio", "raised">>,
    <<"extract_audio", "returned", "transcribe_audio", "returned",
      "analyze_text", "returned">>,
    <<"extract_audio", "returned", "transcribe_audio", "returned",
      "analyze_text", "raised">> }

\* C7 as claimed: within a run the state changes only along Idle ->
\* Extracting -> Transcribing -> Analyzing -> Done, Idle -> Rejected, and
\* {Extracting, Transcribing, Analyzing} -> Failed; each step is invoked at
\* most once and after the previous one returned; Done, Rejected and Failed
\* are left only by a new run.
C7_Original ==
  [][ /\ log' \in LinearLogs
      /\ scriptRuns' = scriptRuns /\ RunState' # RunState =>
           <<RunState, RunState'>> \in SpecTransitions ]_vars

\* C7 as amended: as claimed, with one more transition: Idle -> Failed, taken
\* when creating or writing one of the two temp files raises.
C7_LinearStateMachine ==
  [][ /\ log' \in LinearLogs
      /\ scriptRuns' = scriptRuns /\ RunState' # RunState =>
           \/ <<RunState, RunState'>> \in SpecTransitions
           \/ /\ <<RunState, RunState'>> = <<"Idle", "Failed">>
              /\ pc \in {"tmp_file", "tmp_audio"}
              /\ exc' = "OSError"
      /\ ( /\ RunState' = "Failed"
           /\ RunState # "Failed"
           /\ pc \notin {"tmp_file", "tmp_audio"} )
           => log'[Len(log')] = "raised"
      /\ RunState' = "Rejected" /\ RunState # "Rejected" => pc = "dispatch" ]_vars

\* C7 witness: a run has failed from Idle, before any step
C7_Witness_FailedFromIdle ==
  /\ pc = "idle"
  /\ outcome = "Failed"
  /\ log = <<>>
  /\ created = 1

\* C8: over all script executions the transcription model is loaded once,
\* and every transcribe_audio call uses that one handle.
C8_ModelLoadedOnce ==
  /\ loadCount <= 1
  /\ scriptRuns >= 1 => loadCount = 1 /\ cache = 1 /\ whisper_model = 1
  /\ usedHandle # 0 => usedHandle = 1

\* C8 witness: transcribe_audio has run in a second or later script execution
C8_Witness_LaterRun ==
  scriptRuns >= 2 /\ usedHandle = 1

\* C9: a temp file is never deleted while a step still needs it: both files
\* exist from before extract_audio until the last step of the run has
\* finished, the .wav file holds the audio while transcribe_audio runs,
\* extract_audio deletes neither, and both go only in the cleanup.
C9_FilesOutliveSteps ==
  /\ pc \in {"dispatch", "extract", "transcribe", "analyze", "finally"} =>
       tmp_input = "bytes" /\ Exists(tmp_audio)
  /\ pc \in {"transcribe", "analyze"} => tmp_audio = "wav"
  /\ log # <<>> /\ FilesOnDisk < 2 => pc \in {"returned", "idle"}

\* C9 witness: extract_audio has returned and transcribe_audio is about to run
C9_Witness_BeforeTranscribe ==
  pc = "transcribe" /\ tmp_input = "bytes" /\ tmp_audio = "wav"

\* main has taken what process_file returned
MainResumed == pc = "idle" /\ retval # <<>>

\* C10 as claimed: main shows the two tabs exactly when process_file returned
\* a non-empty transcript and a non-empty analysis; in every other returned
\* outcome no tab is shown and no message either.
C10_Original ==
  MainResumed =>
    /\ rendered <=> (Truthy(retval[1]) /\ Truthy(retval[2]))
    /\ ~rendered => messages = {}

\* C10 as amended: as claimed, except that after a rejection the user has
\* the unsupported-format message process_file showed before it returned
\* (None, None); main itself adds no message.
C10_TabsIffBothNonEmpty ==
  /\ rendered => MainResumed
  /\ MainResumed =>
       /\ rendered <=> /\ retval[1] # None /\ retval[1][1] # <<>>
                       /\ retval[2] # None /\ retval[2][1] # <<>>
       /\ messages = IF outcome = "Rejected" THEN {Unsupported} ELSE {}

\* C10 witness: all three steps returned, the transcript is empty, nothing is
\* shown
C10_Witness_EmptyTranscript ==
  /\ pc = "idle"
  /\ outcome = "Done"
  /\ retval = <<Some(<<>>), Some(<<"a">>)>>
  /\ ~rendered
  /\ messages = {}

====
